---------------------------- MODULE Spec2Model ----------------------------
(***************************************************************************)
(* The MCTS move chooser of ai-chess-rust (src/src/engine/mod.rs).         *)
(*                                                                         *)
(* MctsEngine::choose_move is modelled step by step: the two early         *)
(* returns, the construction of the root, and per iteration the selection  *)
(* loop, the expansion, the random playout (simulate_random_default, one   *)
(* action per turn of its for loop) and the backpropagation; then the      *)
(* final scan of the root's children.                                      *)
(*                                                                         *)
(* The rules engine (crate `chess`: Board, MoveGen, BoardStatus) is an     *)
(* external collaborator.  It is represented by a fixed finite game graph  *)
(* (Game) that has every kind of position the engine distinguishes:        *)
(* checkmates of either side, a stalemate, positions with one, two and     *)
(* three legal moves, a transposition and a closed cycle of positions in   *)
(* which a playout runs until its depth budget is spent.                   *)
(*                                                                         *)
(* A node of the search tree is named by the sequence of moves that leads  *)
(* to it from the root (the root is <<>>): the tree is owned               *)
(* hierarchically (HashMap<ChessMove, Box<Node>>), so that sequence names  *)
(* exactly one node.  An Option<ChessMove> is a sequence of length 0 or 1. *)
(***************************************************************************)
EXTENDS Integers, Sequences, FiniteSets, TLC

VARIABLES
    pc,           \* position of choose_move: start, loop, select, expand, simulate, done; "unit" when only the playout runs
    board0,       \* state.board, the position choose_move is called on
    simulations,  \* self.config.simulations
    tree,         \* node name -> Node
    path,         \* Vec<*mut Node> of the current iteration
    node_ptr,     \* node_ptr of the current iteration
    iter,         \* completed turns of `for _ in 0..simulations`
    result,       \* the Option<ChessMove> returned
    scanOrder,    \* history: the order in which the final scan met root.children
    plies,        \* history: moves applied by playouts so far
    simPc,        \* position of simulate_random_default: idle, loop, returned
    simStart,     \* its argument `start`
    simMax,       \* its argument `max_depth`
    simBoard,     \* its local `board`
    simDepth,     \* completed turns of `for _ in 0..max_depth`
    simResult,    \* the f32 it returns
    history,      \* history: per completed iteration, its selection path and its playout's outcome
    state,        \* main: state.board
    mainPc,       \* position of main: prompt, engine, exit; "off" when main does not run
    said          \* main: what the last command made it print

vars == << pc, board0, simulations, tree, path, node_ptr, iter, result,
           scanOrder, plies, simPc, simStart, simMax, simBoard, simDepth,
           simResult, history, state, mainPc, said >>

\* The command loop's own state: no step of the engine touches it.
mainVars == << state, mainPc, said >>

(***************************************************************************)
(* Bounds of the model.                                                    *)
(***************************************************************************)
MaxSimulations == 5

MaxDepthBudget == 4

(***************************************************************************)
(* Program constants.                                                      *)
(***************************************************************************)
PlayoutDepth == 96

\* f32 values are kept in units of 1/Scale.
Scale == 10000

F32Infinity == 1000000000

F32NegInfinity == -1000000000

(***************************************************************************)
(* The rules engine.                                                       *)
(***************************************************************************)
White == "W"
Black == "B"

Not(color) == IF color = White THEN Black ELSE White

\* Per position: the side to move, whether it is in check, and the legal
\* moves in MoveGen's order, each with the position it leads to.
Game ==
    << \* 1: White, two moves
       [side |-> White, check |-> FALSE, moves |-> << <<1, 2>>, <<2, 3>> >>],
       \* 2: Black, three moves (to a mate, an open position, a stalemate)
       [side |-> Black, check |-> FALSE, moves |-> << <<1, 4>>, <<2, 5>>, <<3, 6>> >>],
       \* 3: Black in check with a single evasion, which walks into mate
       [side |-> Black, check |-> TRUE,  moves |-> << <<1, 4>> >>],
       \* 4: White is checkmated
       [side |-> White, check |-> TRUE,  moves |-> << >>],
       \* 5: White, mates at once or enters the closed cycle
       [side |-> White, check |-> FALSE, moves |-> << <<1, 7>>, <<2, 8>> >>],
       \* 6: White is stalemated
       [side |-> White, check |-> FALSE, moves |-> << >>],
       \* 7: Black is checkmated
       [side |-> Black, check |-> TRUE,  moves |-> << >>],
       \* 8, 9: the closed cycle
       [side |-> Black, check |-> FALSE, moves |-> << <<1, 9>> >>],
       [side |-> White, check |-> FALSE, moves |-> << <<1, 8>> >>],
       \* 10: Black, stalemates White or hands White a lost position
       [side |-> Black, check |-> FALSE, moves |-> << <<1, 6>>, <<2, 11>> >>],
       \* 11: White, one move, after which Black mates
       [side |-> White, check |-> FALSE, moves |-> << <<1, 3>> >>] >>

Boards == DOMAIN Game

SideToMove(board) == Game[board].side

LegalMoves(board) ==
    [i \in 1..Len(Game[board].moves) |-> Game[board].moves[i][1]]

MakeMoveNew(board, mv) ==
    LET i == CHOOSE k \in 1..Len(Game[board].moves) : Game[board].moves[k][1] = mv
    IN  Game[board].moves[i][2]

Status(board) ==
    IF Len(Game[board].moves) > 0 THEN "Ongoing"
    ELSE IF Game[board].check THEN "Checkmate"
    ELSE "Stalemate"

(***************************************************************************)
(* Helpers.                                                                *)
(***************************************************************************)
Range(s) == {s[i] : i \in 1..Len(s)}

Max(a, b) == IF a >= b THEN a ELSE b

\* The orders in which a HashMap's iterator can yield the keys S.
Orders(S) ==
    {s \in [1..Cardinality(S) -> S] :
        \A i, j \in 1..Cardinality(S) : i # j => s[i] # s[j]}

None == << >>

Some(mv) == << mv >>

Root == << >>

(***************************************************************************)
(* Node (engine/mod.rs 147-184).                                           *)
(***************************************************************************)
\* Mutant: only a checkmate counts as terminal.
IsTerminalStatusMateOnly(status) == status = "Checkmate"

\* Line 160: !matches!(status, BoardStatus::Ongoing)
IsTerminalStatus(status) == status # "Ongoing"

NodeNew(board) ==
    LET is_terminal == IsTerminalStatus(Status(board))
    IN  [ board            |-> board,
          visits           |-> 0,
          value_sum        |-> 0,
          children         |-> {},
          unexpanded_moves |-> IF is_terminal THEN << >> ELSE LegalMoves(board),
          is_terminal      |-> is_terminal ]

\* ln(x) in units of 1/Scale, for the visit counts the model reaches.
Ln(x) ==
    CASE x = 1 -> 0
      [] x = 2 -> 6931
      [] x = 3 -> 10986
      [] x = 4 -> 13863
      [] x = 5 -> 16094
      [] x = 6 -> 17918
      [] x = 7 -> 19459
      [] x = 8 -> 20794

RECURSIVE SqrtSearch(_, _, _)
SqrtSearch(x, lo, hi) ==
    IF lo >= hi THEN lo
    ELSE LET mid == (lo + hi + 1) \div 2
         IN  IF mid * mid <= x THEN SqrtSearch(x, mid, hi)
             ELSE SqrtSearch(x, lo, mid - 1)

\* floor(sqrt(x))
Sqrt(x) == SqrtSearch(x, 0, 46340)

\* SQRT_2 * sqrt(ln(parent_visits) / visits), in units of 1/Scale
Exploration(visits, parent_visits) ==
    Sqrt((2 * Ln(parent_visits) * Scale) \div visits)

\* Node::uct_value, in units of 1/Scale
UctValue(node, parent_visits) ==
    IF node.visits = 0 THEN F32Infinity
    ELSE (node.value_sum * Scale) \div node.visits
         + Exploration(node.visits, parent_visits)

ChildOf(id, mv) == Append(id, mv)

\* Lines 52-61: the scan of node.children in the iterator's order `order`,
\* from its element i on, with the best key and score found so far.
RECURSIVE UctScan(_, _, _, _, _, _)
UctScan(t, id, order, i, best_key, best_score) ==
    IF i > Len(order) THEN best_key
    ELSE LET parent_visits == Max(t[id].visits, 1)
             uct == UctValue(t[ChildOf(id, order[i])], parent_visits)
         IN  IF uct > best_score
             THEN UctScan(t, id, order, i + 1, Some(order[i]), uct)
             ELSE UctScan(t, id, order, i + 1, best_key, best_score)

BestChild(t, id, order) == UctScan(t, id, order, 1, None, F32NegInfinity)

\* Mutant: the scan keeps the last of the most visited children (< for <=).
RECURSIVE VisitScanLast(_, _, _, _)
VisitScanLast(t, order, i, best_move) ==
    IF i > Len(order) THEN best_move
    ELSE LET child_visits == t[ChildOf(Root, order[i])].visits
         IN  IF best_move # None /\ child_visits < best_move[2]
             THEN VisitScanLast(t, order, i + 1, best_move)
             ELSE VisitScanLast(t, order, i + 1, << order[i], child_visits >>)

\* Lines 114-121: the scan of root.children for the most visited child.
RECURSIVE VisitScan(_, _, _, _)
VisitScan(t, order, i, best_move) ==
    IF i > Len(order) THEN best_move
    ELSE LET child_visits == t[ChildOf(Root, order[i])].visits
         IN  IF best_move # None /\ child_visits <= best_move[2]
             THEN VisitScan(t, order, i + 1, best_move)
             ELSE VisitScan(t, order, i + 1, << order[i], child_visits >>)

\* Mutant: the match arms are swapped, so a best move is only ever replaced,
\* never set.
RECURSIVE VisitScanOnlyReplaces(_, _, _, _)
VisitScanOnlyReplaces(t, order, i, best_move) ==
    IF i > Len(order) THEN best_move
    ELSE LET child_visits == t[ChildOf(Root, order[i])].visits
         IN  IF best_move # None /\ child_visits > best_move[2]
             THEN VisitScanOnlyReplaces(t, order, i + 1, << order[i], child_visits >>)
             ELSE VisitScanOnlyReplaces(t, order, i + 1, best_move)

MostVisitedOnlyReplaces(t, order) ==
    LET best_move == VisitScanOnlyReplaces(t, order, 1, None)
    IN  IF best_move = None THEN None ELSE Some(best_move[1])

\* Mutant: the pair's fields are mixed up, the visit count is returned.
MostVisitedWrongField(t, order) ==
    LET best_move == VisitScan(t, order, 1, None)
    IN  IF best_move = None THEN None ELSE Some(best_move[2])

\* best_move.map(|(mv, _)| mv)
MostVisited(t, order) ==
    LET best_move == VisitScan(t, order, 1, None)
    IN  IF best_move = None THEN None ELSE Some(best_move[1])

\* legal.into_iter().next()
FirstOf(legal) == IF Len(legal) = 0 THEN None ELSE Some(legal[1])

\* Mutant: the configured count is used as it is.
NumSimulationsUnclamped(configured) == configured

\* self.config.simulations.max(1)
NumSimulations(configured) == Max(configured, 1)

(***************************************************************************)
(* simulate_random_default (engine/mod.rs 125-145), one action per turn    *)
(* of its for loop.                                                        *)
(***************************************************************************)
\* Mutant: a mate is weighted by the depth budget that is left.
MateValueWeighted(board, start_side) ==
    LET winner == Not(SideToMove(board))
    IN  (IF winner = start_side THEN 1 ELSE -1) * (1 + simMax - simDepth)

\* Lines 138-139: the value returned for a checkmated `board`.
MateValue(board, start_side) ==
    LET winner == Not(SideToMove(board))
    IN  IF winner = start_side THEN 1 ELSE -1

\* Mutant: the loop runs one turn too many (0..=max_depth).
HasTurnInclusive(depth, max_depth) == depth <= max_depth

\* Line 129: whether the for loop has a turn left.
HasTurn(depth, max_depth) == depth < max_depth

SimReturn(value) ==
    /\ simResult' = value
    /\ simPc' = "returned"
    /\ UNCHANGED << simBoard, simDepth, plies >>

\* BoardStatus::Ongoing: a uniformly drawn legal move is applied.
SimOngoing ==
    /\ simPc = "loop"
    /\ HasTurn(simDepth, simMax)
    /\ Status(simBoard) = "Ongoing"
    /\ LET moves == LegalMoves(simBoard)
       IN  IF Len(moves) = 0
           THEN SimReturn(0)
           ELSE \E k \in 1..Len(moves) :
                    /\ simBoard' = MakeMoveNew(simBoard, moves[k])
                    /\ simDepth' = simDepth + 1
                    /\ plies' = plies + 1
                    /\ UNCHANGED << simPc, simResult >>
    /\ UNCHANGED << pc, board0, simulations, tree, path, node_ptr, iter,
                    result, scanOrder, simStart, simMax, history >>
    /\ UNCHANGED mainVars

SimCheckmate ==
    /\ simPc = "loop"
    /\ HasTurn(simDepth, simMax)
    /\ Status(simBoard) = "Checkmate"
    /\ SimReturn(MateValue(simBoard, SideToMove(simStart)))
    /\ UNCHANGED << pc, board0, simulations, tree, path, node_ptr, iter,
                    result, scanOrder, simStart, simMax, history >>
    /\ UNCHANGED mainVars

SimStalemate ==
    /\ simPc = "loop"
    /\ HasTurn(simDepth, simMax)
    /\ Status(simBoard) = "Stalemate"
    /\ SimReturn(0)
    /\ UNCHANGED << pc, board0, simulations, tree, path, node_ptr, iter,
                    result, scanOrder, simStart, simMax, history >>
    /\ UNCHANGED mainVars

\* Line 144: the loop has run max_depth turns.
SimExhausted ==
    /\ simPc = "loop"
    /\ ~HasTurn(simDepth, simMax)
    /\ SimReturn(0)
    /\ UNCHANGED << pc, board0, simulations, tree, path, node_ptr, iter,
                    result, scanOrder, simStart, simMax, history >>
    /\ UNCHANGED mainVars

(***************************************************************************)
(* MctsEngine::choose_move (engine/mod.rs 29-122).                         *)
(***************************************************************************)
NoSim == << simPc, simStart, simMax, simBoard, simDepth, simResult, plies >>

\* Line 31
ReturnNone ==
    /\ pc = "start"
    /\ Len(LegalMoves(board0)) = 0
    /\ result' = None
    /\ pc' = "done"
    /\ UNCHANGED << board0, simulations, tree, path, node_ptr, iter, scanOrder >>
    /\ UNCHANGED NoSim
    /\ UNCHANGED << history, mainVars >>

\* Mutant: the single move is searched like any other position.
ReturnOnlyMoveSearches ==
    /\ pc = "start"
    /\ Len(LegalMoves(board0)) = 1
    /\ tree' = (Root :> NodeNew(board0))
    /\ pc' = "loop"
    /\ UNCHANGED << board0, simulations, path, node_ptr, iter, result, scanOrder >>
    /\ UNCHANGED NoSim
    /\ UNCHANGED << history, mainVars >>

\* Line 32
ReturnOnlyMove ==
    /\ pc = "start"
    /\ Len(LegalMoves(board0)) = 1
    /\ result' = Some(LegalMoves(board0)[1])
    /\ pc' = "done"
    /\ UNCHANGED << board0, simulations, tree, path, node_ptr, iter, scanOrder >>
    /\ UNCHANGED NoSim
    /\ UNCHANGED << history, mainVars >>

\* Lines 34-38
BuildRoot ==
    /\ pc = "start"
    /\ Len(LegalMoves(board0)) >= 2
    /\ tree' = (Root :> NodeNew(board0))
    /\ pc' = "loop"
    /\ UNCHANGED << board0, simulations, path, node_ptr, iter, result, scanOrder >>
    /\ UNCHANGED NoSim
    /\ UNCHANGED << history, mainVars >>

\* Lines 39-42
BeginIteration ==
    /\ pc = "loop"
    /\ iter < NumSimulations(simulations)
    /\ path' = << >>
    /\ node_ptr' = Root
    /\ pc' = "select"
    /\ UNCHANGED << board0, simulations, tree, iter, result, scanOrder >>
    /\ UNCHANGED NoSim
    /\ UNCHANGED << history, mainVars >>

\* Mutant: the test of unexpanded_moves is missing.
DescendsEarly(node) ==
    /\ ~node.is_terminal
    /\ node.children # {}

\* Line 50: selection goes on below `node`.
Descends(node) ==
    /\ ~node.is_terminal
    /\ Len(node.unexpanded_moves) = 0
    /\ node.children # {}

\* Lines 44-71, one turn of `loop` that descends to the best child.
SelectDescend ==
    /\ pc = "select"
    /\ Descends(tree[node_ptr])
    /\ \E order \in Orders(tree[node_ptr].children) :
          LET best_key == BestChild(tree, node_ptr, order)
          IN  /\ path' = Append(path, node_ptr)
              /\ IF best_key # None
                 THEN /\ node_ptr' = ChildOf(node_ptr, best_key[1])
                      /\ pc' = "select"
                 ELSE /\ node_ptr' = node_ptr
                      /\ pc' = "expand"
    /\ UNCHANGED << board0, simulations, tree, iter, result, scanOrder >>
    /\ UNCHANGED NoSim
    /\ UNCHANGED << history, mainVars >>

\* Lines 44-71, the turn of `loop` that breaks.
SelectStop ==
    /\ pc = "select"
    /\ ~Descends(tree[node_ptr])
    /\ path' = Append(path, node_ptr)
    /\ pc' = "expand"
    /\ UNCHANGED << board0, simulations, tree, node_ptr, iter, result, scanOrder >>
    /\ UNCHANGED NoSim
    /\ UNCHANGED << history, mainVars >>

\* Mutant: the first move is removed (remove(0)), not the last.
PopMoveFront(moves) == Tail(moves)

\* Mutant: the move is read with last() and stays in the list.
PopMoveKeeps(moves) == moves

\* Line 78: Vec::pop
PopMove(moves) == SubSeq(moves, 1, Len(moves) - 1)

\* Lines 78-82: the tree after `mv`, the last unexpanded move of node `id`,
\* became a child.
Expanded(t, id) ==
    LET node == t[id]
        mv == node.unexpanded_moves[Len(node.unexpanded_moves)]
        next_board == MakeMoveNew(node.board, mv)
        parent == [node EXCEPT !.unexpanded_moves = PopMove(node.unexpanded_moves),
                               !.children = node.children \cup {mv}]
    IN  (ChildOf(id, mv) :> NodeNew(next_board)) @@ (id :> parent) @@ t

\* Mutant: the new child is not pushed on the path (line 92 is missing).
ExpandNoPush ==
    /\ pc = "expand"
    /\ ~tree[node_ptr].is_terminal
    /\ Len(tree[node_ptr].unexpanded_moves) > 0
    /\ LET moves == tree[node_ptr].unexpanded_moves
           child == ChildOf(node_ptr, moves[Len(moves)])
       IN  /\ tree' = Expanded(tree, node_ptr)
           /\ node_ptr' = child
           /\ path' = path
    /\ pc' = "simulate"
    /\ UNCHANGED << board0, simulations, iter, result, scanOrder >>
    /\ UNCHANGED NoSim
    /\ UNCHANGED << history, mainVars >>

\* Lines 73-93: a child is created and becomes the tip of the path.
Expand ==
    /\ pc = "expand"
    /\ ~tree[node_ptr].is_terminal
    /\ Len(tree[node_ptr].unexpanded_moves) > 0
    /\ LET moves == tree[node_ptr].unexpanded_moves
           child == ChildOf(node_ptr, moves[Len(moves)])
       IN  /\ tree' = Expanded(tree, node_ptr)
           /\ node_ptr' = child
           /\ path' = Append(path, child)
    /\ pc' = "simulate"
    /\ UNCHANGED << board0, simulations, iter, result, scanOrder >>
    /\ UNCHANGED NoSim
    /\ UNCHANGED << history, mainVars >>

\* Lines 73-93: nothing to expand.
ExpandNothing ==
    /\ pc = "expand"
    /\ tree[node_ptr].is_terminal \/ Len(tree[node_ptr].unexpanded_moves) = 0
    /\ pc' = "simulate"
    /\ UNCHANGED << board0, simulations, tree, path, node_ptr, iter, result, scanOrder >>
    /\ UNCHANGED NoSim
    /\ UNCHANGED << history, mainVars >>

\* Lines 96-99: the call of simulate_random_default(&node.board, 96, rng).
CallSimulate ==
    /\ pc = "simulate"
    /\ simPc = "idle"
    /\ simPc' = "loop"
    /\ simStart' = tree[node_ptr].board
    /\ simBoard' = tree[node_ptr].board
    /\ simMax' = PlayoutDepth
    /\ simDepth' = 0
    /\ UNCHANGED << pc, board0, simulations, tree, path, node_ptr, iter, result,
                    scanOrder, plies, simResult, history >>
    /\ UNCHANGED mainVars

\* Mutant: the walk over the path skips its first element, the root.
BackpropagatedSkipFirst(t, nodes, sim_result) ==
    [id \in DOMAIN t |->
        IF id \in Range(Tail(nodes))
        THEN [t[id] EXCEPT !.visits = @ + 1, !.value_sum = @ + sim_result]
        ELSE t[id]]

\* Mutant: only the tip of the path is updated.
BackpropagatedTipOnly(t, nodes, sim_result) ==
    [id \in DOMAIN t |->
        IF Len(nodes) > 0 /\ id = nodes[Len(nodes)]
        THEN [t[id] EXCEPT !.visits = @ + 1, !.value_sum = @ + sim_result]
        ELSE t[id]]

\* Mutant: the outcome's sign is inverted from one ply to the next, counted
\* from the tip.
BackpropagatedAlternating(t, nodes, sim_result) ==
    [id \in DOMAIN t |->
        IF id \in Range(nodes)
        THEN [t[id] EXCEPT !.visits = @ + 1,
                           !.value_sum = @ + (IF (Len(nodes) - Len(id)) % 2 = 1
                                              THEN sim_result ELSE -sim_result)]
        ELSE t[id]]

\* Lines 102-106
Backpropagated(t, nodes, sim_result) ==
    [id \in DOMAIN t |->
        IF id \in Range(nodes)
        THEN [t[id] EXCEPT !.visits = @ + 1, !.value_sum = @ + sim_result]
        ELSE t[id]]

\* Lines 101-108: backpropagation, and the end of the iteration.
Backpropagate ==
    /\ pc = "simulate"
    /\ simPc = "returned"
    /\ tree' = Backpropagated(tree, path, simResult)
    /\ iter' = iter + 1
    /\ pc' = "loop"
    /\ simPc' = "idle"
    /\ history' = Append(history, [path |-> path, outcome |-> simResult])
    /\ UNCHANGED << board0, simulations, path, node_ptr, result, scanOrder,
                    plies, simStart, simMax, simBoard, simDepth, simResult >>
    /\ UNCHANGED mainVars

\* Lines 110-121
PickMove ==
    /\ pc = "loop"
    /\ iter >= NumSimulations(simulations)
    /\ IF tree[Root].children = {}
       THEN /\ result' = FirstOf(LegalMoves(board0))
            /\ UNCHANGED scanOrder
       ELSE \E order \in Orders(tree[Root].children) :
                /\ scanOrder' = order
                /\ result' = MostVisited(tree, order)
    /\ pc' = "done"
    /\ UNCHANGED << board0, simulations, tree, path, node_ptr, iter >>
    /\ UNCHANGED NoSim
    /\ UNCHANGED << history, mainVars >>

Init ==
    /\ pc = "start"
    /\ board0 \in Boards
    /\ simulations \in 0..MaxSimulations
    /\ tree = << >>
    /\ path = << >>
    /\ node_ptr = Root
    /\ iter = 0
    /\ result = None
    /\ scanOrder = << >>
    /\ plies = 0
    /\ simPc = "idle"
    /\ simStart = board0
    /\ simBoard = board0
    /\ simMax = PlayoutDepth
    /\ simDepth = 0
    /\ simResult = 0
    /\ history = << >>
    /\ state = board0
    /\ mainPc = "off"
    /\ said = ""

Next ==
    \/ ReturnNone
    \/ ReturnOnlyMove
    \/ BuildRoot
    \/ BeginIteration
    \/ SelectDescend
    \/ SelectStop
    \/ Expand
    \/ ExpandNothing
    \/ CallSimulate
    \/ SimOngoing
    \/ SimCheckmate
    \/ SimStalemate
    \/ SimExhausted
    \/ Backpropagate
    \/ PickMove

Spec == Init /\ [][Next]_vars

\* The call runs to completion: the code is sequential and never waits.
FairSpec == Spec /\ WF_vars(Next)

(***************************************************************************)
(* simulate_random_default on its own: any start position, any depth       *)
(* budget up to MaxDepthBudget.                                            *)
(***************************************************************************)
InitSim ==
    /\ pc = "unit"
    /\ board0 \in Boards
    /\ simulations = 0
    /\ tree = << >>
    /\ path = << >>
    /\ node_ptr = Root
    /\ iter = 0
    /\ result = None
    /\ scanOrder = << >>
    /\ plies = 0
    /\ simPc = "loop"
    /\ simStart = board0
    /\ simBoard = board0
    /\ simMax \in 0..MaxDepthBudget
    /\ simDepth = 0
    /\ simResult = 0
    /\ history = << >>
    /\ state = board0
    /\ mainPc = "off"
    /\ said = ""

NextSim ==
    \/ SimOngoing
    \/ SimCheckmate
    \/ SimStalemate
    \/ SimExhausted

SpecSim == InitSim /\ [][NextSim]_vars

(***************************************************************************)
(* GameState::parse_uci_move (game/mod.rs 82-136).  A move text is a        *)
(* sequence of characters of Alphabet; "euro" stands for a character of    *)
(* three bytes in UTF-8, the others are one byte each.                     *)
(***************************************************************************)
MaxTextLen == 5

DefaultSimulations == 1000

Alphabet == {"a", "B", "1", "q", "euro"}

Texts == UNION {[1..n -> Alphabet] : n \in 0..MaxTextLen}

\* The bytes of a text; "euro2" and "euro3" are continuation bytes.
RECURSIVE Utf8(_)
Utf8(text) ==
    IF Len(text) = 0 THEN << >>
    ELSE (IF Head(text) = "euro" THEN << "euro", "euro2", "euro3" >>
          ELSE << Head(text) >>)
         \o Utf8(Tail(text))

\* str::is_char_boundary
IsCharBoundary(bytes, i) ==
    \/ i = 0
    \/ i = Len(bytes)
    \/ i < Len(bytes) /\ bytes[i + 1] \notin {"euro2", "euro3"}

\* char::to_ascii_lowercase
ToAsciiLowercase(c) ==
    CASE c = "A" -> "a" [] c = "B" -> "b" [] c = "C" -> "c" [] c = "D" -> "d"
      [] c = "E" -> "e" [] c = "F" -> "f" [] c = "G" -> "g" [] c = "H" -> "h"
      [] c = "Q" -> "q" [] c = "R" -> "r" [] c = "N" -> "n"
      [] OTHER -> c

UciFile(c) ==
    IF ToAsciiLowercase(c) \in {"a", "b", "c", "d", "e", "f", "g", "h"}
    THEN Some(ToAsciiLowercase(c)) ELSE None

UciRank(c) ==
    IF c \in {"1", "2", "3", "4", "5", "6", "7", "8"} THEN Some(c) ELSE None

UciPromoPiece(c) ==
    CASE ToAsciiLowercase(c) = "q" -> Some("Queen")
      [] ToAsciiLowercase(c) = "r" -> Some("Rook")
      [] ToAsciiLowercase(c) = "b" -> Some("Bishop")
      [] ToAsciiLowercase(c) = "n" -> Some("Knight")
      [] OTHER -> None

\* The argument is a slice of two bytes.
UciSquare(s) ==
    IF Len(s) # 2 THEN None
    ELSE LET f == UciFile(s[1])
             r == UciRank(s[2])
         IN  IF f = None \/ r = None THEN None ELSE Some(<< f[1], r[1] >>)

Panic == << "panic" >>

\* None, Some(ChessMove::new(from_sq, to_sq, promo)), or the panic of a slice
\* that does not end on a character boundary.
ParseUciMove(text) ==
    LET mv == Utf8(text)
    IN  IF Len(mv) < 4 THEN None
        ELSE IF ~IsCharBoundary(mv, 2) \/ ~IsCharBoundary(mv, 4) THEN Panic
        ELSE LET from_sq == UciSquare(SubSeq(mv, 1, 2))
                 to_sq == UciSquare(SubSeq(mv, 3, 4))
                 promo == IF Len(mv) = 5 THEN UciPromoPiece(text[5]) ELSE None
             IN  IF from_sq = None \/ to_sq = None THEN None
                 ELSE Some(<< from_sq[1], to_sq[1], promo >>)

\* The ChessMove that each move of Game stands for.
ChessMoves ==
    << << <<"a", "1">>, <<"b", "1">>, None >>,
       << <<"b", "1">>, <<"a", "1">>, None >>,
       << <<"a", "1">>, <<"b", "1">>, Some("Queen") >> >>

\* legal.contains(&mv): the moves of `legal` that are the ChessMove mv.
Matching(legal, mv) == {k \in Range(legal) : ChessMoves[k] = mv}

(***************************************************************************)
(* main (main.rs 7-79): the command loop.                                  *)
(***************************************************************************)
\* Board::default()
StartBoard == 1

HumanColor == White

\* Mutant: the negation is missing.
IsTerminalNegated(board) == Status(board) = "Ongoing"

\* GameState::is_terminal
IsTerminal(board) == Status(board) # "Ongoing"

Min(a, b) == IF a <= b THEN a ELSE b

\* A line of input: a first word, the number of spaces after it, and the text
\* that follows; read_line's line break ends it.
Verbs == {"quit", "exit", "help", "board", "move", "", "other"}

Lines ==
    [verb : {"move"}, gap : 0..1, text : Texts]
      \cup [verb : Verbs \ {"move"}, gap : 0..1, text : {<< >>, << "a" >>}]

\* input.trim(): spaces before a line break, and the line break, go.
Trim(line) == IF Len(line.text) = 0 THEN [line EXCEPT !.gap = 0] ELSE line

\* cmd == word
Is(cmd, word) == cmd.verb = word /\ cmd.gap = 0 /\ Len(cmd.text) = 0

\* cmd.starts_with("move ")
IsMove(cmd) == cmd.verb = "move" /\ cmd.gap >= 1

\* cmd.trim_start_matches("move ").trim()
MoveText(cmd) == cmd.text

EngineVars == << pc, board0, tree, path, node_ptr, iter, result, scanOrder,
                 plies, simPc, simStart, simMax, simBoard, simDepth,
                 simResult, history >>

\* The locals of a choose_move call that starts on `board`.
EngineEntered(board) ==
    /\ pc' = "start"
    /\ board0' = board
    /\ tree' = << >>
    /\ path' = << >>
    /\ node_ptr' = Root
    /\ iter' = 0
    /\ result' = None
    /\ scanOrder' = << >>
    /\ plies' = 0
    /\ simPc' = "idle"
    /\ simStart' = board
    /\ simBoard' = board
    /\ simMax' = PlayoutDepth
    /\ simDepth' = 0
    /\ simResult' = 0
    /\ history' = << >>

\* Lines 16-78, up to the call of choose_move: one line is read and handled.
ReadCommand ==
    /\ mainPc = "prompt"
    /\ \E line \in Lines :
          LET cmd == Trim(line)
              mv_txt == MoveText(cmd)
              parsed == ParseUciMove(mv_txt)
              legal == LegalMoves(state)
          IN  IF Is(cmd, "quit") \/ Is(cmd, "exit")
              THEN /\ mainPc' = "exit" /\ said' = "bye"
                   /\ UNCHANGED << state, EngineVars >>
              ELSE IF Is(cmd, "help") \/ Is(cmd, "board")
              THEN /\ said' = cmd.verb
                   /\ UNCHANGED << state, mainPc, EngineVars >>
              ELSE IF IsMove(cmd)
              THEN IF Len(mv_txt) = 0
                   THEN /\ said' = "empty_move"
                        /\ UNCHANGED << state, mainPc, EngineVars >>
                   ELSE IF SideToMove(state) # HumanColor
                   THEN /\ said' = "not_your_turn"
                        /\ UNCHANGED << state, mainPc, EngineVars >>
                   ELSE IF parsed = Panic
                   THEN /\ mainPc' = "panicked" /\ said' = "panic"
                        /\ UNCHANGED << state, EngineVars >>
                   ELSE IF parsed = None
                   THEN /\ said' = "bad_format"
                        /\ UNCHANGED << state, mainPc, EngineVars >>
                   ELSE IF Matching(legal, parsed[1]) = {}
                   THEN /\ said' = "illegal"
                        /\ UNCHANGED << state, mainPc, EngineVars >>
                   ELSE LET mv == CHOOSE k \in Matching(legal, parsed[1]) : TRUE
                            next == MakeMoveNew(state, mv)
                        IN  /\ state' = next
                            /\ IF IsTerminal(next)
                               THEN /\ said' = "game_over"
                                    /\ UNCHANGED << mainPc, EngineVars >>
                               ELSE /\ said' = "thinking"
                                    /\ mainPc' = "engine"
                                    /\ EngineEntered(next)
              ELSE /\ said' = (IF Is(cmd, "") THEN "" ELSE "unknown")
                   /\ UNCHANGED << state, mainPc, EngineVars >>
    /\ UNCHANGED simulations

\* Lines 56-65: choose_move has returned.
EngineReturn ==
    /\ mainPc = "engine"
    /\ pc = "done"
    /\ IF result # None
       THEN /\ state' = MakeMoveNew(state, result[1])
            /\ said' = (IF IsTerminal(MakeMoveNew(state, result[1]))
                        THEN "ai_moved_game_over" ELSE "ai_moved")
       ELSE /\ said' = "ai_no_moves"
            /\ UNCHANGED state
    /\ mainPc' = "prompt"
    /\ pc' = "idle"
    /\ tree' = << >>
    /\ path' = << >>
    /\ node_ptr' = Root
    /\ iter' = 0
    /\ result' = None
    /\ scanOrder' = << >>
    /\ plies' = 0
    /\ history' = << >>
    /\ UNCHANGED << board0, simulations, simPc, simStart, simMax, simBoard,
                    simDepth, simResult >>

\* A step of the choose_move call that main waits for.
EngineStep == mainPc = "engine" /\ Next

InitMain ==
    /\ mainPc = "prompt"
    /\ state = StartBoard
    /\ said = ""
    /\ simulations = Min(DefaultSimulations, MaxSimulations)
    /\ pc = "idle"
    /\ board0 = StartBoard
    /\ tree = << >>
    /\ path = << >>
    /\ node_ptr = Root
    /\ iter = 0
    /\ result = None
    /\ scanOrder = << >>
    /\ plies = 0
    /\ simPc = "idle"
    /\ simStart = StartBoard
    /\ simBoard = StartBoard
    /\ simMax = PlayoutDepth
    /\ simDepth = 0
    /\ simResult = 0
    /\ history = << >>

NextMain ==
    \/ ReadCommand
    \/ EngineReturn
    \/ EngineStep

SpecMain == InitMain /\ [][NextMain]_vars

(***************************************************************************)
(* Properties.                                                             *)
(***************************************************************************)
Legal0 == LegalMoves(board0)

\* choose_move has returned after running the search loop.
Searched == pc = "done" /\ Len(Legal0) >= 2

VisitsOf(mv) == tree[ChildOf(Root, mv)].visits

\* C1: when the iteration loop of a choose_move call on a position with at
\* least two legal moves has finished, the root's visit count is the
\* configured simulation count N, a configured 0 counting as 1.
C1_RootVisitsEqualSimulations ==
    Searched =>
        tree[Root].visits = (IF simulations = 0 THEN 1 ELSE simulations)

C1_Witness ==
    /\ Searched
    /\ simulations >= 3
    /\ tree[Root].visits = simulations
    /\ Len(path) >= 3

\* C2: choose_move returns None if and only if the position has no legal
\* move.
C2_NoneIffNoLegalMove ==
    pc = "done" => (result = None <=> Len(Legal0) = 0)

C2_Witness ==
    /\ pc = "done"
    /\ result = None
    /\ Status(board0) = "Stalemate"

\* C3: on a position with exactly one legal move choose_move returns that
\* move for every configured simulation count, and creates no node, runs no
\* iteration and no playout on the way.
C3_SingleMoveShortCircuit ==
    Len(Legal0) = 1 =>
        /\ pc \in {"start", "done"}
        /\ tree = << >>
        /\ iter = 0
        /\ plies = 0
        /\ simPc = "idle"
        /\ pc = "done" => result = Some(Legal0[1])

C3_Witness ==
    /\ pc = "done"
    /\ Len(Legal0) = 1
    /\ simulations = 0
    /\ result = Some(Legal0[1])

\* C4: a move returned by choose_move is a legal move of the root position.
C4_ReturnedMoveIsLegal ==
    pc = "done" /\ result # None => result[1] \in Range(Legal0)

C4_Witness ==
    /\ Searched
    /\ result # None
    /\ Cardinality(tree[Root].children) < Len(Legal0)
    /\ iter >= 2

\* C5: when the root has children at the end of the search, the move returned
\* is the key of a root child that no other root child has more visits than,
\* and every child the final scan met before it has strictly fewer visits.
C5_RobustChildFirstKept ==
    Searched /\ tree[Root].children # {} =>
        /\ result # None
        /\ result[1] \in tree[Root].children
        /\ \A mv \in tree[Root].children : VisitsOf(mv) <= VisitsOf(result[1])
        /\ \E k \in 1..Len(scanOrder) :
              /\ scanOrder[k] = result[1]
              /\ \A j \in 1..(k - 1) : VisitsOf(scanOrder[j]) < VisitsOf(result[1])

C5_Witness ==
    /\ Searched
    /\ Len(scanOrder) >= 2
    /\ result = Some(scanOrder[1])
    /\ VisitsOf(scanOrder[2]) = VisitsOf(scanOrder[1])
    /\ VisitsOf(scanOrder[1]) >= 2

\* C6 as written: the search loop of a call runs exactly max(simulations, 1)
\* times and the playouts of the call apply at most simulations x 96 moves.
C6_PliesWithinSimulationsTimes96 ==
    /\ Searched => iter = Max(simulations, 1)
    /\ plies <= simulations * PlayoutDepth

\* C6 (amended): every choose_move call returns; its search loop runs exactly
\* max(simulations, 1) times, a selection descent takes one step per level
\* of a tree that has at most one node per started iteration below the root,
\* a playout applies at most 96 moves, and the playouts of the call apply at
\* most max(simulations, 1) x 96 moves.
C6_TerminatesWithinBudget ==
    /\ <>(pc = "done")
    /\ [](/\ iter <= Max(simulations, 1)
          /\ Searched => iter = Max(simulations, 1)
          /\ Len(path) <= iter + 2
          /\ Cardinality(DOMAIN tree) <= iter + 2
          /\ simDepth <= PlayoutDepth
          /\ plies <= iter * PlayoutDepth + simDepth
          /\ plies <= Max(simulations, 1) * PlayoutDepth)

C6_Witness ==
    /\ Searched
    /\ simulations = 0
    /\ iter = 1
    /\ plies = PlayoutDepth

\* C7: the move returned is a function of the position, the configuration and
\* the playouts' random draws: no step of choose_move other than a playout
\* draw has more than one outcome.  (The order in which a HashMap yields its
\* entries is not fixed by any of the three, and it decides ties.)
C7_SameDrawsSameMove ==
    /\ pc = "select" /\ Descends(tree[node_ptr]) =>
          Cardinality({BestChild(tree, node_ptr, order) :
                          order \in Orders(tree[node_ptr].children)}) = 1
    /\ pc = "loop" /\ iter >= NumSimulations(simulations)
                   /\ tree[Root].children # {} =>
          Cardinality({MostVisited(tree, order) :
                          order \in Orders(tree[Root].children)}) = 1

\* C8: simulate_random_default returns -1, 0 or +1, for every start position
\* and every depth budget, 0 included.
C8_OutcomeRange ==
    simPc = "returned" => simResult \in {-1, 0, 1}

C8_Witness ==
    /\ simPc = "returned"
    /\ simResult = -1
    /\ simDepth >= 2

\* C9: between the steps of the search, the unexpanded moves and the keys of
\* the children of every node are disjoint and together are the legal moves
\* of the node's position.
C9_UnexpandedAndChildrenPartitionLegal ==
    \A id \in DOMAIN tree :
        LET node == tree[id]
        IN  /\ Range(node.unexpanded_moves) \cap node.children = {}
            /\ Range(node.unexpanded_moves) \cup node.children
                  = Range(LegalMoves(node.board))
            /\ Len(node.unexpanded_moves)
                  = Cardinality(Range(node.unexpanded_moves))
            /\ node.children = {mv \in Range(LegalMoves(node.board)) :
                                   ChildOf(id, mv) \in DOMAIN tree}

C9_Witness ==
    \E id \in DOMAIN tree :
        /\ id # Root
        /\ tree[id].children # {}
        /\ Len(tree[id].unexpanded_moves) > 0
        /\ tree[Root].children # {}
        /\ Len(tree[Root].unexpanded_moves) = 0

\* C10: a node is terminal exactly if its position is checkmate or stalemate;
\* a terminal node has no unexpanded move and no child at any time, and is
\* the last node of any selection path it is on.
C10_TerminalNodesStayLeaves ==
    /\ \A id \in DOMAIN tree :
          LET node == tree[id]
          IN  /\ node.is_terminal = (Status(node.board) # "Ongoing")
              /\ node.is_terminal =>
                    /\ node.unexpanded_moves = << >>
                    /\ node.children = {}
                    /\ \A other \in DOMAIN tree :
                          Len(other) = Len(id) + 1 => SubSeq(other, 1, Len(id)) # id
    /\ \A i \in 1..Len(path) :
          path[i] \in DOMAIN tree /\ tree[path[i]].is_terminal => i = Len(path)
    /\ pc \in {"select", "expand", "simulate"} /\ tree[node_ptr].is_terminal =>
          \A i \in 1..Len(path) : path[i] = node_ptr => i = Len(path)

C10_Witness ==
    \E id \in DOMAIN tree :
        /\ tree[id].is_terminal
        /\ Status(tree[id].board) = "Stalemate"
        /\ tree[id].visits >= 2
        /\ pc = "done"

\* The iterations completed so far whose selection path held node `id`.
PassesThrough(id) ==
    {k \in 1..Len(history) : id \in Range(history[k].path)}

RECURSIVE SumVisits(_, _)
SumVisits(id, keys) ==
    IF keys = {} THEN 0
    ELSE LET mv == CHOOSE m \in keys : TRUE
         IN  tree[ChildOf(id, mv)].visits + SumVisits(id, keys \ {mv})

\* The sum of the visit counts of the children of node `id`.
ChildVisits(id) == SumVisits(id, tree[id].children)

\* No iteration is under way.
BetweenIterations == pc \in {"loop", "done"}

FullyExpanded(id) ==
    /\ Len(tree[id].unexpanded_moves) = 0
    /\ tree[id].children = Range(LegalMoves(tree[id].board))

\* C11: the visit count of every node of the tree is the number of completed
\* iterations whose selection path (root through tip, with the node expanded
\* in that iteration) held the node.
C11_VisitsCountPaths ==
    /\ Len(history) = iter
    /\ \A id \in DOMAIN tree :
          tree[id].visits = Cardinality(PassesThrough(id))

C11_Witness ==
    /\ BetweenIterations
    /\ \E id \in DOMAIN tree :
          /\ Len(id) = 2
          /\ tree[id].visits = 2
          /\ tree[Root].visits = 5

\* C12: after every completed iteration the visit count of every node is at
\* least the sum of the visit counts of its children.
C12_VisitsAtLeastChildren ==
    BetweenIterations =>
        \A id \in DOMAIN tree : tree[id].visits >= ChildVisits(id)

C12_Witness ==
    /\ BetweenIterations
    /\ \E id \in DOMAIN tree :
          /\ id # Root
          /\ Cardinality(tree[id].children) >= 2
          /\ tree[id].visits > ChildVisits(id)
          /\ ChildVisits(id) >= 2

\* C13 as written, for the nodes that have a child: after every completed
\* iteration a node with no unexpanded move, all of whose legal moves are
\* children, has as many visits as its children together.
C13_FullyExpandedVisitsEqualChildren ==
    BetweenIterations =>
        \A id \in DOMAIN tree :
            FullyExpanded(id) /\ tree[id].children # {} =>
                tree[id].visits = ChildVisits(id)

\* C13 (amended): after every completed iteration, the root, once fully
\* expanded, has as many visits as its children together; every other fully
\* expanded node that is not terminal has one visit more than its children
\* together, the visit of the iteration that created it; a terminal node has
\* no child and at least one visit.
C13_FullyExpandedRootEqualOthersOneMore ==
    BetweenIterations =>
        \A id \in DOMAIN tree :
            FullyExpanded(id) =>
                IF id = Root THEN tree[id].visits = ChildVisits(id)
                ELSE IF ~tree[id].is_terminal
                     THEN tree[id].visits = ChildVisits(id) + 1
                     ELSE ChildVisits(id) = 0 /\ tree[id].visits >= 1

C13_Witness ==
    /\ BetweenIterations
    /\ Root \in DOMAIN tree
    /\ FullyExpanded(Root)
    /\ tree[Root].visits >= 4
    /\ \E id \in DOMAIN tree :
          /\ id # Root
          /\ FullyExpanded(id)
          /\ tree[id].children # {}
          /\ tree[id].visits = ChildVisits(id) + 1

\* The step is the backpropagation of an iteration.
IsBackpropagation == pc = "simulate" /\ pc' = "loop"

\* C14: backpropagation adds 1 to the visit count and the playout's outcome,
\* with the same sign at every depth, to the value sum of every node on the
\* iteration's selection path, and leaves the visit count and value sum of
\* every other node as they are (as does every other step).
C14_BackpropagationFrame ==
    [][ /\ IsBackpropagation =>
              /\ DOMAIN tree' = DOMAIN tree
              /\ \A id \in DOMAIN tree :
                    IF \E i \in 1..Len(path) : path[i] = id
                    THEN /\ tree'[id].visits = tree[id].visits + 1
                         /\ tree'[id].value_sum = tree[id].value_sum + simResult
                    ELSE /\ tree'[id].visits = tree[id].visits
                         /\ tree'[id].value_sum = tree[id].value_sum
        /\ ~IsBackpropagation =>
              \A id \in DOMAIN tree \cap DOMAIN tree' :
                    /\ tree'[id].visits = tree[id].visits
                    /\ tree'[id].value_sum = tree[id].value_sum ]_vars

C14_Witness ==
    /\ pc = "loop"
    /\ Len(path) >= 3
    /\ simResult = -1
    /\ \A i \in 1..Len(path) : tree[path[i]].value_sum < 0
    /\ Cardinality(DOMAIN tree) > Len(path)

\* C15: when simulate_random_default returns, the value fits the position the
\* playout has reached: +1 or -1 by the side that is mated if it is a
\* checkmate (+1 if the side to move at the start is not the mated side), 0
\* if it is a stalemate, and 0 for an exhausted depth budget only if the
\* position is still ongoing.  Stated for the depth budgets of at least 1 (a
\* budget of 0 returns 0 for a checkmated start position as well).
C15_OutcomeFitsReachedPosition ==
    simPc = "returned" /\ simMax >= 1 =>
        CASE Status(simBoard) = "Checkmate" ->
                 simResult = (IF SideToMove(simStart) # SideToMove(simBoard)
                              THEN 1 ELSE -1)
          [] Status(simBoard) = "Stalemate" -> simResult = 0
          [] Status(simBoard) = "Ongoing" ->
                 simResult = 0 /\ simDepth = simMax

\* C16: selection goes from a node to one of its children only if the node is
\* not terminal, has no unexpanded move and has a child, and then to a child
\* without visits if there is one; and a child of a node has a second visit
\* only when every legal move of the node is a child that has been visited.
C16_ExpandAllBeforeRevisit ==
    /\ [](\A id \in DOMAIN tree :
             (\E mv \in tree[id].children : tree[ChildOf(id, mv)].visits >= 2) =>
                 /\ Len(tree[id].unexpanded_moves) = 0
                 /\ \A mv \in Range(LegalMoves(tree[id].board)) :
                       /\ mv \in tree[id].children
                       /\ tree[ChildOf(id, mv)].visits >= 1)
    /\ [][pc = "select" /\ node_ptr' # node_ptr =>
             /\ ~tree[node_ptr].is_terminal
             /\ Len(tree[node_ptr].unexpanded_moves) = 0
             /\ \E mv \in tree[node_ptr].children :
                   node_ptr' = ChildOf(node_ptr, mv)
             /\ (\E mv \in tree[node_ptr].children :
                    tree[ChildOf(node_ptr, mv)].visits = 0)
                   => tree[node_ptr'].visits = 0]_vars

C16_Witness ==
    \E id \in DOMAIN tree :
        /\ Cardinality(tree[id].children) = 3
        /\ \E mv \in tree[id].children : tree[ChildOf(id, mv)].visits >= 2
        /\ pc = "select"
        /\ node_ptr # Root

\* C17: for a root position with at least two legal moves the root has a
\* child when the iteration loop has finished, for every configured
\* simulation count; the move returned is a key of root.children, not the
\* first legal move taken for want of children.
C17_RootHasChildAfterLoop ==
    /\ pc = "loop" /\ iter >= NumSimulations(simulations) =>
          tree[Root].children # {}
    /\ Searched =>
          /\ tree[Root].children # {}
          /\ Len(scanOrder) = Cardinality(tree[Root].children)
          /\ result # None /\ result[1] \in tree[Root].children

C17_Witness ==
    /\ Searched
    /\ simulations = 0
    /\ Cardinality(tree[Root].children) = 1
    /\ result # FirstOf(Legal0)

\* The step is the expansion phase of an iteration.
IsExpansion == pc = "expand"

\* C18: an iteration creates at most one node: its expansion phase removes
\* the last unexpanded move of the node selection stopped at, and makes it a
\* child, if that node is not terminal and has an unexpanded move, and
\* changes nothing otherwise; no step adds a move to a list of unexpanded
\* moves, removes a child or removes a node; when no iteration is under way
\* the tree has at most one node more than iterations have been completed.
C18_OneNodePerIteration ==
    /\ [](/\ BetweenIterations /\ tree # << >> =>
                Cardinality(DOMAIN tree) <= iter + 1
          /\ Cardinality(DOMAIN tree) <= iter + 2)
    /\ [][ /\ \A id \in DOMAIN tree :
                 /\ id \in DOMAIN tree'
                 /\ tree[id].children \subseteq tree'[id].children
                 /\ \/ tree'[id].unexpanded_moves = tree[id].unexpanded_moves
                    \/ /\ Len(tree[id].unexpanded_moves) > 0
                       /\ tree'[id].unexpanded_moves
                             = SubSeq(tree[id].unexpanded_moves, 1,
                                      Len(tree[id].unexpanded_moves) - 1)
           /\ Cardinality(DOMAIN tree' \ DOMAIN tree) <= 1
           /\ IsExpansion =>
                 LET node == tree[node_ptr]
                     n == Len(node.unexpanded_moves)
                 IN  IF ~node.is_terminal /\ n > 0
                     THEN /\ tree'[node_ptr].unexpanded_moves
                                = SubSeq(node.unexpanded_moves, 1, n - 1)
                          /\ tree'[node_ptr].children
                                = node.children \cup {node.unexpanded_moves[n]}
                          /\ DOMAIN tree' = DOMAIN tree
                                \cup {ChildOf(node_ptr, node.unexpanded_moves[n])}
                          /\ \A id \in DOMAIN tree \ {node_ptr} : tree'[id] = tree[id]
                     ELSE tree' = tree
           /\ ~IsExpansion /\ pc # "start" =>
                 /\ DOMAIN tree' = DOMAIN tree
                 /\ \A id \in DOMAIN tree :
                       /\ tree'[id].unexpanded_moves = tree[id].unexpanded_moves
                       /\ tree'[id].children = tree[id].children ]_vars

C18_Witness ==
    /\ BetweenIterations
    /\ iter = 4
    /\ Cardinality(DOMAIN tree) = 3
    /\ \E id \in DOMAIN tree : Len(tree[id].unexpanded_moves) >= 1

Abs(x) == IF x < 0 THEN -x ELSE x

\* C19: after every completed iteration the value sum of every node is at
\* most its visit count in absolute value, and every node but the root has
\* at least one visit.
C19_ValueBoundedAndChildrenVisited ==
    BetweenIterations =>
        \A id \in DOMAIN tree :
            /\ Abs(tree[id].value_sum) <= tree[id].visits
            /\ id # Root => tree[id].visits >= 1

C19_Witness ==
    /\ BetweenIterations
    /\ \E id \in DOMAIN tree :
          /\ id # Root
          /\ tree[id].visits >= 2
          /\ Abs(tree[id].value_sum) = tree[id].visits
    /\ \E id \in DOMAIN tree :
          /\ id # Root
          /\ tree[id].visits = 1
          /\ tree[id].value_sum = -1


\* C20: in the command loop, at every prompt either White (the human) is to
\* move or the game is terminal; a "move" command that is empty, out of turn,
\* unparseable or illegal leaves the game state unchanged; and choose_move is
\* called only on a non-terminal position with Black to move, so that the
\* "AI has no moves" branch is never taken.
Rejected == {"empty_move", "not_your_turn", "bad_format", "illegal"}

C20_CommandLoopTurns ==
    /\ [](mainPc = "prompt" =>
            SideToMove(state) = HumanColor \/ Status(state) # "Ongoing")
    /\ [](mainPc = "engine" =>
            /\ board0 = state
            /\ Status(board0) = "Ongoing"
            /\ SideToMove(board0) = Black
            /\ LegalMoves(board0) # << >>)
    /\ [](said # "ai_no_moves")
    /\ [][mainPc = "prompt" /\ said' \in Rejected =>
            state' = state /\ mainPc' = "prompt"]_vars

\* The engine has answered at least once (the human is on a position only an
\* engine move leads to) and a move command has just been rejected as illegal.
C20_Witness ==
    /\ mainPc = "prompt"
    /\ said = "illegal"
    /\ state = 5

=============================================================================
